---- MODULE Spec2Model ----
(***************************************************************************)
(* A model of the managed-runtime bridge of src/C/m/m.c: the exported      *)
(* m_* functions and the static helpers they use, each as one action,      *)
(* running against an embedded runtime that is modelled by its metadata    *)
(* tables (assemblies, images, classes, members) and by the list of the    *)
(* assemblies it has loaded.                                               *)
(*                                                                         *)
(* Every operation records the runtime calls it makes, in order, in        *)
(* `calls`, its return value in `result`, and how it ended in `outcome`:   *)
(*   "ok"        it returned to its caller;                                *)
(*   "fatal"     g_error: a diagnostic, then the process is aborted;       *)
(*   "crash"     undefined behaviour, the process is killed by a signal;   *)
(*   "undefined" undefined behaviour, the process goes on in a way the     *)
(*               language does not constrain.                              *)
(* Only after "ok" does the process make another call.                     *)
(***************************************************************************)
EXTENDS Integers, Sequences, FiniteSets, TLC

VARIABLES
    jit,        \* "none", "running" or "cleaned": the embedded JIT host
    domain,     \* the MDomain wrapper m_domain_new returned, or NULL
    loaded,     \* the runtime's loaded assemblies, in the order of mono_assembly_foreach
    objects,    \* the managed heap: the class of every object, by object id
    arrays,     \* the managed arrays: element class and length, by array id
    op,         \* the last operation and its arguments
    calls,      \* the runtime and glib calls the last operation made, in order
    outcome,    \* how the last operation ended
    result      \* the value the last operation returned

vars == <<jit, domain, loaded, objects, arrays, op, calls, outcome, result>>

(***************************************************************************)
(* Bounds of the model.                                                    *)
(***************************************************************************)
MaxObjects == 2     \* objects m_object may allocate
MaxArrays == 1      \* arrays m_array / m_array_int32 may allocate
MaxArgc == 1        \* argument counts 0 .. MaxArgc
MaxIndex == 1       \* array indexes 0 .. MaxIndex
LongLen == 250      \* length of the long name offered to m_invoke_method

(***************************************************************************)
(* Program constants.                                                      *)
(***************************************************************************)
NameBufSize == 256  \* gchar name[256] in m_invoke_method

(***************************************************************************)
(* Values: every pointer, handle and integer the program passes around is  *)
(* a record [kind, id, off]; off is the byte offset of an address inside   *)
(* the array id, and 0 for everything else.                                *)
(***************************************************************************)
Ptr(k, i) == [kind |-> k, id |-> i, off |-> 0]
NULL == Ptr("null", 0)
WILD == Ptr("wild", 0)              \* a pointer to no live object
IntVal(n) == Ptr("int", n)
Asm(i) == Ptr("assembly", i)
Img(i) == Ptr("image", i)
Cls(k) == Ptr("class", k)
Typ(k) == Ptr("type", k)
Obj(o) == Ptr("object", o)
Unboxed(o) == Ptr("unboxed", o)     \* the raw storage inside the boxed object o
Arr(a) == Ptr("array", a)
Addr(a, off) == [kind |-> "addr", id |-> a, off |-> off]
RootDomain == Ptr("domain", 1)
ManagedValue == Ptr("managed", 1)   \* an object handed back by managed code
ARGS == Ptr("args", 1)              \* a caller's argument vector

\* struct _MDomain
MDomain(d) == [kind |-> "MDomain", id |-> 1, off |-> 0, domain |-> d]

Call(fn, p, s, n) == [fn |-> fn, p |-> p, s |-> s, n |-> n]
Op(name, p, s, n) == [name |-> name, p |-> p, s |-> s, n |-> n]

(***************************************************************************)
(* The embedded runtime's world: the assembly files it can open, and the   *)
(* metadata of each.  Assemblies 1 and 2 are two versions of one assembly  *)
(* and so carry the same image name.                                       *)
(***************************************************************************)
Corlib == 4
AssemblyFile == <<"v1/Game.dll", "v2/Game.dll", "Lib.dll", "mscorlib.dll">>
ImageName == <<"Game", "Game", "Lib", "mscorlib">>
UserAssemblies == {1, 2, 3}

ClassTable == <<
    [asm |-> 1, ns |-> "NS", name |-> "Vec",  struct |-> TRUE,
     ctors |-> {0, 1}, props |-> {"X"}, fields |-> {"x"},
     methods |-> {<<"Len", 0>>}],
    [asm |-> 1, ns |-> "NS", name |-> "Game", struct |-> FALSE,
     ctors |-> {0}, props |-> {"Name"}, fields |-> {"name"},
     methods |-> {<<"Run", 1>>}],
    [asm |-> 2, ns |-> "NS", name |-> "Game", struct |-> FALSE,
     ctors |-> {0}, props |-> {"Name"}, fields |-> {"name"},
     methods |-> {<<"Run", 1>>}],
    [asm |-> 3, ns |-> "NS", name |-> "Vec",  struct |-> TRUE,
     ctors |-> {1}, props |-> {"X"}, fields |-> {"x"},
     methods |-> {<<"Len", 0>>}] >>
Int32Class == 5                     \* mono_get_int32_class ()

\* the static methods of each image, by descriptor
StaticMethods == <<{"NS.Game:Init"}, {"NS.Game:Init"}, {"NS.Vec:Zero"}, {}>>

RECURSIVE Rep(_, _)
Rep(s, n) == IF n = 0 THEN "" ELSE s \o Rep(s, n - 1)
LongName == Rep("x", LongLen)

\* what callers pass
RuntimeTags == {"M_RUNTIME_4_0", "M_RUNTIME_4_5", "M_RUNTIME_OTHER"}
FileNames == {"v1/Game.dll", "v2/Game.dll", "Lib.dll", "none.dll"}
AssemblyNames == {"Game", "Lib", "Missing"}
NameSpaces == {"NS"}
TypeNames == {"Vec", "Game", "Nope"}
PropertyNames == {"X", "Name", "Nope"}
FieldNames == {"x", "name", "nope"}
MethodNames == {"Len", "Run", "Nope"}
StaticNames == {"Init", "Nope"}
LongNameSpaces == {"NS", LongName}
StaticClassNames == {"Game"}
ArrayLengths == {0, 2}
ElemSizes == {1, 4}

SeqToSet(s) == {s[i] : i \in 1..Len(s)}
IsLoaded(a) == a.kind = "assembly" /\ a.id \in SeqToSet(loaded)
alive == outcome = "ok"

\* what undefined behaviour inside a call can produce
UBOutcomes == {"crash", "undefined"}

(***************************************************************************)
(* The static helpers.                                                     *)
(***************************************************************************)
\* mono_image_get_name (mono_assembly_get_image (assembly))
assembly_get_name(assembly) == ImageName[assembly]

\* 0 when the two strings are equal
g_strcmp0(a, b) == IF a = b THEN 0 ELSE 1

\* the mutant: only the first match is kept
foreach_assembly_first(assembly, query) ==
    IF g_strcmp0(assembly_get_name(assembly), query.name) = 0
       /\ query.assembly = NULL
    THEN [query EXCEPT !.assembly = Asm(assembly)]
    ELSE query

\* the callback of the scan: a match overwrites query->assembly
foreach_assembly(assembly, query) ==
    IF g_strcmp0(assembly_get_name(assembly), query.name) = 0
    THEN [query EXCEPT !.assembly = Asm(assembly)]
    ELSE query

\* mono_assembly_foreach: the callback on every loaded assembly, in list order
RECURSIVE mono_assembly_foreach(_, _)
mono_assembly_foreach(list, query) ==
    IF list = <<>> THEN query
    ELSE mono_assembly_foreach(Tail(list), foreach_assembly(Head(list), query))

\* what the uninitialised query.assembly may hold: a null, a stale pointer
\* to some assembly, or a pointer to nothing
StackGarbage == {NULL, WILD} \cup {Asm(i) : i \in UserAssemblies \cup {Corlib}}

\* find_assembly with query.assembly holding `garbage` on entry
find_assembly_from(name, garbage) ==
    mono_assembly_foreach(loaded, [assembly |-> garbage, name |-> name]).assembly

\* the values find_assembly (name) can return: query.assembly is never
\* initialised, so the scan starts from whatever the stack holds
find_assembly(name) == {find_assembly_from(name, g) : g \in StackGarbage}

\* the descriptor g_sprintf writes, "%s.%s:%s"
get_method_desc(name_space, class_name, method_name) ==
    name_space \o "." \o class_name \o ":" \o method_name

\* the mutant: every tag falls back to the default version
RuntimeVersionFallback(runtime) == "v4.0.30319"

\* the switch of m_domain_new; "" for the default branch
RuntimeVersion(runtime) ==
    CASE runtime = "M_RUNTIME_4_0" -> "v4.0.30319"
      [] runtime = "M_RUNTIME_4_5" -> "v4.0.30319"
      [] OTHER -> ""

(***************************************************************************)
(* The runtime's calls.                                                    *)
(***************************************************************************)
\* mono_domain_assembly_open: the assembly of the file, NULL when it cannot be opened
mono_domain_assembly_open(name) ==
    IF \E i \in UserAssemblies : AssemblyFile[i] = name
    THEN Asm(CHOOSE i \in UserAssemblies : AssemblyFile[i] = name)
    ELSE NULL

\* the loaded list after opening: a new assembly is put in front
LoadedAfterOpen(assembly) ==
    IF assembly = NULL \/ IsLoaded(assembly) THEN loaded
    ELSE <<assembly.id>> \o loaded

\* mono_class_from_name: the class of that namespace and name in the image
mono_class_from_name(image, name_space, name) ==
    LET found == {k \in 1..Len(ClassTable) :
                     /\ ClassTable[k].asm = image.id
                     /\ ClassTable[k].ns = name_space
                     /\ ClassTable[k].name = name}
    IN IF found = {} THEN NULL ELSE Cls(CHOOSE k \in found : TRUE)

\* mono_class_get_method_from_name: the method of that name and arity, or NULL.
\* A class of the table has at most one member of each arity, so the class
\* and the arity identify the member.
mono_class_get_method_from_name(klass, name, argc) ==
    IF name = ".ctor"
    THEN IF argc \in ClassTable[klass.id].ctors
         THEN Ptr("ctor", klass.id * 10 + argc) ELSE NULL
    ELSE IF <<name, argc>> \in ClassTable[klass.id].methods
         THEN Ptr("method", klass.id * 10 + argc) ELSE NULL

mono_class_get_property_from_name(klass, name) ==
    IF name \in ClassTable[klass.id].props THEN Ptr("property", klass.id) ELSE NULL

mono_class_get_field_from_name(klass, name) ==
    IF name \in ClassTable[klass.id].fields THEN Ptr("field", klass.id) ELSE NULL

mono_object_get_class(object) == Cls(objects[object.id])
mono_class_get_type(klass) == Typ(klass.id)
mono_type_is_struct(type) == ClassTable[type.id].struct
mono_object_unbox(object) == Unboxed(object.id)

\* mono_method_desc_search_in_image: the static method the descriptor names
mono_method_desc_search_in_image(desc, image) ==
    IF desc \in StaticMethods[image.id] THEN Ptr("static", image.id) ELSE NULL

\* the address of element `index` of elements `size` bytes wide
mono_array_addr_with_size(array, size, index) == Addr(array.id, size * index)

\* the mutant: the receiver is the boxed object whatever its type
ReceiverBoxed(object, type) == object

\* the receiver of a member call: if (mono_type_is_struct (type)) the
\* unboxed storage, else the object itself
Receiver(object, type) ==
    IF mono_type_is_struct(type) THEN mono_object_unbox(object) ELSE object

\* the handles a caller holds: the objects allocated so far, and a null handle
ObjectHandles == {NULL} \cup {Obj(i) : i \in 1..Len(objects)}
ArrayHandles == {Arr(i) : i \in 1..Len(arrays)}

Finish(o, c, out, res) ==
    /\ op' = o
    /\ calls' = c
    /\ outcome' = out
    /\ result' = res

\* the last recorded call has undefined behaviour (a null or wild pointer is
\* dereferenced, or memory past a buffer is written)
Undefined(o, c) ==
    /\ \E u \in UBOutcomes : Finish(o, c, u, NULL)
    /\ UNCHANGED <<jit, domain, loaded, objects, arrays>>

\* g_error: the diagnostic, then abort
Fatal(o, c, message) ==
    /\ Finish(o, Append(c, Call("g_error", <<>>, message, <<>>)), "fatal", NULL)

(***************************************************************************)
(* Domain lifecycle.                                                       *)
(***************************************************************************)
m_domain_new(runtime) ==
    /\ alive /\ jit = "none"
    /\ LET o == Op("m_domain_new", <<>>, <<"lib", "etc", "root", runtime>>, <<>>)
           version == RuntimeVersion(runtime)
           c0 == <<Call("g_malloc0", <<>>, <<>>, <<>>)>>
       IN IF version = ""
          THEN /\ Finish(o, Append(c0, Call("g_error", <<>>,
                            <<"M: Invalid runtime version.">>, <<>>)), "fatal", NULL)
               /\ UNCHANGED <<jit, domain, loaded, objects, arrays>>
          ELSE /\ Finish(o, c0 \o <<Call("mono_set_dirs", <<>>, <<"lib", "etc">>, <<>>),
                                    Call("mono_jit_init_version", <<>>,
                                         <<"root", version>>, <<>>)>>,
                         "ok", MDomain(RootDomain))
               /\ jit' = "running"
               /\ domain' = MDomain(RootDomain)
               /\ loaded' = <<Corlib>>
               /\ UNCHANGED <<objects, arrays>>

m_domain_free ==
    /\ alive /\ jit = "running"
    /\ Finish(Op("m_domain_free", <<domain.domain>>, <<>>, <<>>),
              <<Call("mono_jit_cleanup", <<domain.domain>>, <<>>, <<>>),
                Call("g_free", <<>>, <<>>, <<>>)>>, "ok", NULL)
    /\ jit' = "cleaned"
    /\ domain' = NULL
    /\ loaded' = <<>>
    /\ UNCHANGED <<objects, arrays>>

m_domain_exec(name, argc) ==
    /\ alive /\ jit = "running"
    /\ LET o == Op("m_domain_exec", <<domain.domain>>, <<name>>, <<argc>>)
           assembly == mono_domain_assembly_open(name)
           c0 == <<Call("mono_domain_assembly_open", <<domain.domain>>, <<name>>, <<>>)>>
       IN IF assembly = NULL
          THEN /\ Finish(o, Append(c0, Call("g_error", <<>>,
                            <<"M: Unable to load %s assembly.\n", name>>, <<>>)),
                         "fatal", NULL)
               /\ UNCHANGED <<jit, domain, loaded, objects, arrays>>
          ELSE \* argc - 1 arguments, from argv + 1
               /\ Finish(o, Append(c0, Call("mono_jit_exec", <<domain.domain, assembly>>,
                                            <<>>, <<argc - 1, 1>>)), "ok", NULL)
               /\ loaded' = LoadedAfterOpen(assembly)
               /\ UNCHANGED <<jit, domain, objects, arrays>>

m_load_assembly(name) ==
    /\ alive /\ jit = "running"
    /\ LET o == Op("m_load_assembly", <<>>, <<name>>, <<>>)
           assembly == mono_domain_assembly_open(name)
           c0 == <<Call("mono_domain_assembly_open", <<RootDomain>>, <<name>>, <<>>)>>
       IN IF assembly = NULL
          THEN /\ Finish(o, Append(c0, Call("g_error", <<>>,
                            <<"M: Unable to load %s assembly.\n", name>>, <<>>)),
                         "fatal", NULL)
               /\ UNCHANGED <<jit, domain, loaded, objects, arrays>>
          ELSE /\ Finish(o, c0, "ok", NULL)
               /\ loaded' = LoadedAfterOpen(assembly)
               /\ UNCHANGED <<jit, domain, objects, arrays>>


(***************************************************************************)
(* Object construction and access.                                         *)
(***************************************************************************)
m_object(assembly_name, name_space, name, argc) ==
    /\ alive /\ jit = "running" /\ Len(objects) < MaxObjects
    /\ \E assembly \in find_assembly(assembly_name) :
       LET o == Op("m_object", <<ARGS>>, <<assembly_name, name_space, name>>, <<argc>>)
           c1 == <<Call("mono_assembly_get_image", <<assembly>>, <<>>, <<>>)>>
       IN IF ~IsLoaded(assembly) THEN Undefined(o, c1)
          ELSE
       LET image == Img(assembly.id)
           klass == mono_class_from_name(image, name_space, name)
           c2 == c1 \o <<Call("mono_class_from_name", <<image>>, <<name_space, name>>, <<>>),
                         Call("mono_object_new", <<RootDomain, klass>>, <<>>, <<>>)>>
       IN IF klass = NULL THEN Undefined(o, c2)
          ELSE
       LET object == Obj(Len(objects) + 1)
           ctor == mono_class_get_method_from_name(klass, ".ctor", argc)
           type == mono_class_get_type(klass)
           c3 == c2 \o <<Call("mono_class_get_method_from_name", <<klass>>,
                              <<".ctor">>, <<argc>>),
                         Call("mono_class_get_type", <<klass>>, <<>>, <<>>)>>
       IN /\ objects' = Append(objects, klass.id)
          /\ UNCHANGED <<jit, domain, loaded, arrays>>
          /\ IF ctor = NULL
             THEN Fatal(o, c3, <<"M: Unable to find constructor for type %s.\n", name>>)
             ELSE Finish(o, Append(c3, Call("mono_runtime_invoke",
                                            <<ctor, Receiver(object, type), ARGS>>,
                                            <<>>, <<>>)),
                         "ok", object)

\* m_object_get_property and m_object_get_property_array: the same body,
\* the result wrapped as an MObject or as an MArray
PropertyGet(fn, object, property_name) ==
    /\ alive /\ jit = "running"
    /\ LET o == Op(fn, <<object>>, <<property_name>>, <<>>)
           c1 == <<Call("mono_object_get_class", <<object>>, <<>>, <<>>)>>
       IN IF object = NULL THEN Undefined(o, c1)
          ELSE
       LET klass == mono_object_get_class(object)
           prop == mono_class_get_property_from_name(klass, property_name)
           type == mono_class_get_type(klass)
           c2 == c1 \o <<Call("mono_class_get_property_from_name", <<klass>>,
                              <<property_name>>, <<>>),
                         Call("mono_class_get_type", <<klass>>, <<>>, <<>>),
                         Call("mono_property_get_value",
                              <<prop, Receiver(object, type), NULL>>, <<>>, <<>>)>>
       IN IF prop = NULL THEN Undefined(o, c2)
          ELSE /\ Finish(o, c2, "ok", ManagedValue)
               /\ UNCHANGED <<jit, domain, loaded, objects, arrays>>

m_object_get_property(object, property_name) ==
    PropertyGet("m_object_get_property", object, property_name)

m_object_get_property_array(object, property_name) ==
    PropertyGet("m_object_get_property_array", object, property_name)

m_object_set_property(object, property_name, value) ==
    /\ alive /\ jit = "running"
    /\ LET o == Op("m_object_set_property", <<object, value>>, <<property_name>>, <<>>)
           c1 == <<Call("mono_object_get_class", <<object>>, <<>>, <<>>)>>
       IN IF object = NULL THEN Undefined(o, c1)
          ELSE
       LET klass == mono_object_get_class(object)
           prop == mono_class_get_property_from_name(klass, property_name)
           type == mono_class_get_type(klass)
           c2 == c1 \o <<Call("mono_class_get_property_from_name", <<klass>>,
                              <<property_name>>, <<>>),
                         Call("mono_class_get_type", <<klass>>, <<>>, <<>>),
                         Call("mono_property_set_value",
                              <<prop, Receiver(object, type), value>>, <<>>, <<>>)>>
       IN IF prop = NULL THEN Undefined(o, c2)
          ELSE /\ Finish(o, c2, "ok", NULL)
               /\ UNCHANGED <<jit, domain, loaded, objects, arrays>>

m_object_set_field(object, field_name, value) ==
    /\ alive /\ jit = "running"
    /\ LET o == Op("m_object_set_field", <<object, value>>, <<field_name>>, <<>>)
           c1 == <<Call("mono_object_get_class", <<object>>, <<>>, <<>>)>>
       IN IF object = NULL THEN Undefined(o, c1)
          ELSE
       LET klass == mono_object_get_class(object)
           field == mono_class_get_field_from_name(klass, field_name)
           c2 == c1 \o <<Call("mono_class_get_field_from_name", <<klass>>,
                              <<field_name>>, <<>>),
                         Call("mono_class_get_type", <<klass>>, <<>>, <<>>),
                         Call("mono_field_set_value", <<object, field, value>>,
                              <<>>, <<>>)>>
       IN IF field = NULL THEN Undefined(o, c2)
          ELSE /\ Finish(o, c2, "ok", NULL)
               /\ UNCHANGED <<jit, domain, loaded, objects, arrays>>

m_object_invoke(object, method_name, argc) ==
    /\ alive /\ jit = "running"
    /\ LET o == Op("m_object_invoke", <<object, ARGS>>, <<method_name>>, <<argc>>)
           c1 == <<Call("mono_object_get_class", <<object>>, <<>>, <<>>)>>
       IN IF object = NULL THEN Undefined(o, c1)
          ELSE
       LET klass == mono_object_get_class(object)
           method == mono_class_get_method_from_name(klass, method_name, argc)
           type == mono_class_get_type(klass)
           c2 == c1 \o <<Call("mono_class_get_method_from_name", <<klass>>,
                              <<method_name>>, <<argc>>),
                         Call("mono_class_get_type", <<klass>>, <<>>, <<>>),
                         Call("mono_runtime_invoke",
                              <<method, Receiver(object, type), ARGS>>, <<>>, <<>>)>>
       IN IF method = NULL THEN Undefined(o, c2)
          ELSE /\ Finish(o, c2, "ok", ManagedValue)
               /\ UNCHANGED <<jit, domain, loaded, objects, arrays>>

\* the mutant: no null check before the runtime's unbox
m_object_unbox_unchecked(object) ==
    /\ alive /\ jit = "running"
    /\ Finish(Op("m_object_unbox", <<object>>, <<>>, <<>>),
              <<Call("mono_object_unbox", <<object>>, <<>>, <<>>)>>,
              "ok", mono_object_unbox(object))
    /\ UNCHANGED <<jit, domain, loaded, objects, arrays>>

m_object_unbox(object) ==
    /\ alive /\ jit = "running"
    /\ LET o == Op("m_object_unbox", <<object>>, <<>>, <<>>)
       IN IF object = NULL
          THEN Fatal(o, <<>>, <<"M: Cannot unbox null object.">>)
          ELSE Finish(o, <<Call("mono_object_unbox", <<object>>, <<>>, <<>>)>>,
                      "ok", mono_object_unbox(object))
    /\ UNCHANGED <<jit, domain, loaded, objects, arrays>>


m_invoke_method(assembly_name, name_space, static_class_name, method_name) ==
    /\ alive /\ jit = "running"
    /\ LET o == Op("m_invoke_method", <<ARGS>>,
                   <<assembly_name, name_space, static_class_name, method_name>>, <<>>)
           name == get_method_desc(name_space, static_class_name, method_name)
           \* g_sprintf writes the descriptor and its terminator into name[256]
           c0 == <<Call("g_sprintf", <<>>, <<name>>, <<Len(name) + 1>>)>>
       IN IF Len(name) + 1 > NameBufSize THEN Undefined(o, c0)
          ELSE
       \E assembly \in find_assembly(assembly_name) :
       IF assembly = NULL
       THEN /\ Fatal(o, c0, <<"M: Unable to find assembly %s.\n", assembly_name>>)
            /\ UNCHANGED <<jit, domain, loaded, objects, arrays>>
       ELSE
       LET c1 == Append(c0, Call("mono_assembly_get_image", <<assembly>>, <<>>, <<>>))
       IN IF ~IsLoaded(assembly) THEN Undefined(o, c1)
          ELSE
       LET image == Img(assembly.id)
           method == mono_method_desc_search_in_image(name, image)
           c2 == c1 \o <<Call("mono_method_desc_new", <<>>, <<name>>, <<>>),
                         Call("mono_method_desc_search_in_image", <<image>>,
                              <<name>>, <<>>),
                         Call("mono_method_desc_free", <<>>, <<name>>, <<>>)>>
       IN /\ UNCHANGED <<jit, domain, loaded, objects, arrays>>
          /\ IF method # NULL
             THEN Finish(o, Append(c2, Call("mono_runtime_invoke",
                                            <<method, NULL, ARGS>>, <<>>, <<>>)),
                         "ok", ManagedValue)
             ELSE Fatal(o, c2, <<"M: Unable to invoke %s.\n", name>>)

(***************************************************************************)
(* Arrays.                                                                 *)
(***************************************************************************)
m_array(assembly_name, name_space, name, size) ==
    /\ alive /\ jit = "running" /\ Len(arrays) < MaxArrays
    /\ \E assembly \in find_assembly(assembly_name) :
       LET o == Op("m_array", <<>>, <<assembly_name, name_space, name>>, <<size>>)
           c1 == <<Call("mono_assembly_get_image", <<assembly>>, <<>>, <<>>)>>
       IN IF ~IsLoaded(assembly) THEN Undefined(o, c1)
          ELSE
       LET image == Img(assembly.id)
           klass == mono_class_from_name(image, name_space, name)
           c2 == c1 \o <<Call("mono_class_from_name", <<image>>, <<name_space, name>>, <<>>),
                         Call("mono_array_new", <<RootDomain, klass>>, <<>>, <<size>>)>>
       IN IF klass = NULL THEN Undefined(o, c2)
          ELSE /\ Finish(o, c2, "ok", Arr(Len(arrays) + 1))
               /\ arrays' = Append(arrays, [klass |-> klass.id, length |-> size])
               /\ UNCHANGED <<jit, domain, loaded, objects>>

m_array_int32(size) ==
    /\ alive /\ jit = "running" /\ Len(arrays) < MaxArrays
    /\ Finish(Op("m_array_int32", <<>>, <<>>, <<size>>),
              <<Call("mono_get_int32_class", <<>>, <<>>, <<>>),
                Call("mono_array_new", <<RootDomain, Cls(Int32Class)>>, <<>>, <<size>>)>>,
              "ok", Arr(Len(arrays) + 1))
    /\ arrays' = Append(arrays, [klass |-> Int32Class, length |-> size])
    /\ UNCHANGED <<jit, domain, loaded, objects>>

\* what a function that ends without a return statement hands its caller:
\* whatever the return register holds, the address just computed included
IndeterminateAddress(array, size, index) ==
    {NULL, WILD, Addr(array.id, 0), mono_array_addr_with_size(array, size, index)}

m_array_addr_with_size(object, size, index) ==
    /\ alive /\ jit = "running"
    /\ \E returned \in IndeterminateAddress(object, size, index) :
          Finish(Op("m_array_addr_with_size", <<object>>, <<>>, <<size, index>>),
                 <<Call("mono_array_addr_with_size", <<object>>, <<>>, <<size, index>>)>>,
                 "ok", returned)
    /\ UNCHANGED <<jit, domain, loaded, objects, arrays>>

m_array_length(object) ==
    /\ alive /\ jit = "running"
    /\ Finish(Op("m_array_length", <<object>>, <<>>, <<>>),
              <<Call("mono_array_length", <<object>>, <<>>, <<>>)>>,
              "ok", IntVal(arrays[object.id].length))
    /\ UNCHANGED <<jit, domain, loaded, objects, arrays>>

\* a call of find_assembly on its own, as m_object, m_array and
\* m_invoke_method make it
FindAssembly(name) ==
    /\ alive
    /\ \E assembly \in find_assembly(name) :
          Finish(Op("find_assembly", <<>>, <<name>>, <<>>),
                 <<Call("mono_assembly_foreach", <<>>, <<name>>, <<>>)>>, "ok", assembly)
    /\ UNCHANGED <<jit, domain, loaded, objects, arrays>>

Init ==
    /\ jit = "none"
    /\ domain = NULL
    /\ loaded = <<>>
    /\ objects = <<>>
    /\ arrays = <<>>
    /\ op = Op("none", <<>>, <<>>, <<>>)
    /\ calls = <<>>
    /\ outcome = "ok"
    /\ result = NULL

DomainNew == \E runtime \in RuntimeTags : m_domain_new(runtime)
DomainFree == m_domain_free
DomainExec == \E name \in FileNames, argc \in 0..MaxArgc : m_domain_exec(name, argc)
LoadAssembly == \E name \in FileNames : m_load_assembly(name)
Find == \E name \in AssemblyNames : FindAssembly(name)
NewObject ==
    \E assembly_name \in AssemblyNames, name_space \in NameSpaces,
       name \in TypeNames, argc \in 0..MaxArgc :
       m_object(assembly_name, name_space, name, argc)
GetProperty ==
    \E object \in ObjectHandles, property_name \in PropertyNames :
       m_object_get_property(object, property_name)
GetPropertyArray ==
    \E object \in ObjectHandles, property_name \in PropertyNames :
       m_object_get_property_array(object, property_name)
SetProperty ==
    \E object \in ObjectHandles, property_name \in PropertyNames :
       m_object_set_property(object, property_name, ManagedValue)
SetField ==
    \E object \in ObjectHandles, field_name \in FieldNames :
       m_object_set_field(object, field_name, ManagedValue)
Invoke ==
    \E object \in ObjectHandles, method_name \in MethodNames, argc \in 0..MaxArgc :
       m_object_invoke(object, method_name, argc)
Unbox == \E object \in ObjectHandles : m_object_unbox(object)
InvokeMethod ==
    \E assembly_name \in AssemblyNames, name_space \in LongNameSpaces,
       static_class_name \in StaticClassNames, method_name \in StaticNames :
       m_invoke_method(assembly_name, name_space, static_class_name, method_name)
NewArray ==
    \E assembly_name \in AssemblyNames, name_space \in NameSpaces,
       name \in TypeNames, size \in ArrayLengths :
       m_array(assembly_name, name_space, name, size)
NewArrayInt32 == \E size \in ArrayLengths : m_array_int32(size)
ArrayAddr ==
    \E object \in ArrayHandles, size \in ElemSizes, index \in 0..MaxIndex :
       m_array_addr_with_size(object, size, index)
ArrayLength == \E object \in ArrayHandles : m_array_length(object)

\* the whole bridge
Next ==
    \/ DomainNew \/ DomainFree \/ DomainExec \/ LoadAssembly \/ Find
    \/ NewObject \/ GetProperty \/ GetPropertyArray \/ SetProperty \/ SetField
    \/ Invoke \/ Unbox \/ InvokeMethod
    \/ NewArray \/ NewArrayInt32 \/ ArrayAddr \/ ArrayLength
Spec == Init /\ [][Next]_vars

\* the domain lifecycle
NextDomain == DomainNew \/ DomainFree \/ DomainExec
SpecDomain == Init /\ [][NextDomain]_vars

\* assembly resolution
NextAssembly == DomainNew \/ LoadAssembly \/ Find
SpecAssembly == Init /\ [][NextAssembly]_vars

\* object construction and access
NextObject ==
    \/ DomainNew \/ LoadAssembly
    \/ NewObject \/ GetProperty \/ GetPropertyArray \/ SetProperty \/ SetField
    \/ Invoke \/ Unbox
SpecObject == Init /\ [][NextObject]_vars

\* static invocation
NextInvoke == DomainNew \/ LoadAssembly \/ InvokeMethod
SpecInvoke == Init /\ [][NextInvoke]_vars

\* arrays
NextArray ==
    \/ DomainNew \/ LoadAssembly
    \/ NewArray \/ NewArrayInt32 \/ ArrayAddr \/ ArrayLength
SpecArray == Init /\ [][NextArray]_vars

(***************************************************************************)
(* The properties.                                                         *)
(***************************************************************************)
CallsTo(fn) == {i \in 1..Len(calls) : calls[i].fn = fn}
\* the positions of the loaded list whose image name is `name`
Matches(name) == {i \in 1..Len(loaded) : ImageName[loaded[i]] = name}
Min(S) == CHOOSE x \in S : \A y \in S : x <= y
Max(S) == CHOOSE x \in S : \A y \in S : y <= x

\* C1: when no loaded assembly has the requested image name (the loaded
\* list may be empty), find_assembly returns NULL.
FindAssemblyNotFoundIsNull ==
    (op.name = "find_assembly" /\ Matches(op.s[1]) = {}) => result = NULL

\* C2, as stated: when several loaded assemblies have the requested image
\* name, find_assembly returns the first of them in scan order.
FindAssemblyReturnsFirstMatch ==
    (op.name = "find_assembly" /\ Matches(op.s[1]) # {})
        => result = Asm(loaded[Min(Matches(op.s[1]))])

\* C2, amended: when one or more loaded assemblies have the requested image
\* name, find_assembly returns the last of them in scan order: every later
\* match replaces an earlier one.
FindAssemblyReturnsLastMatch ==
    (op.name = "find_assembly" /\ Matches(op.s[1]) # {})
        => result = Asm(loaded[Max(Matches(op.s[1]))])

FindAssemblyTwoMatches ==
    /\ op.name = "find_assembly"
    /\ Cardinality(Matches(op.s[1])) >= 2
    /\ result = Asm(loaded[Max(Matches(op.s[1]))])
    /\ result # Asm(loaded[Min(Matches(op.s[1]))])

\* the argument of a runtime call that holds the resolved assembly, class,
\* property, field or method; 0 when the call takes none
ResolvedArg(fn) ==
    CASE fn = "mono_assembly_get_image" -> 1
      [] fn = "mono_object_new" -> 2
      [] fn = "mono_array_new" -> 2
      [] fn = "mono_class_get_method_from_name" -> 1
      [] fn = "mono_class_get_type" -> 1
      [] fn = "mono_property_get_value" -> 1
      [] fn = "mono_property_set_value" -> 1
      [] fn = "mono_field_set_value" -> 2
      [] fn = "mono_runtime_invoke" -> 1
      [] OTHER -> 0
Unresolved(p) ==
    \/ p.kind \in {"null", "wild"}
    \/ p.kind = "assembly" /\ ~IsLoaded(p)
ResolvingOps ==
    {"m_object", "m_array", "m_object_get_property", "m_object_get_property_array",
     "m_object_set_property", "m_object_set_field", "m_object_invoke"}

\* C3: in the resolving operations, called on a live object, no runtime call
\* is made with an unresolved assembly, class, property, field or method,
\* and the operation either returns or ends in fatal termination.
ResolutionFailureIsFatal ==
    (op.name \in ResolvingOps /\ (op.name \in {"m_object", "m_array"} \/ op.p[1] # NULL))
        => /\ outcome \in {"ok", "fatal"}
           /\ \A i \in 1..Len(calls) :
                 ResolvedArg(calls[i].fn) # 0
                     => ~Unresolved(calls[i].p[ResolvedArg(calls[i].fn)])

\* C4: m_domain_new with an unsupported tag is fatal before mono_set_dirs and
\* mono_jit_init_version; with M_RUNTIME_4_0 or M_RUNTIME_4_5 it initialises
\* the JIT once with "v4.0.30319" and returns a wrapper of the runtime's
\* domain.
DomainNewChecksRuntime ==
    op.name = "m_domain_new" =>
        IF op.s[4] \in {"M_RUNTIME_4_0", "M_RUNTIME_4_5"}
        THEN /\ outcome = "ok"
             /\ Cardinality(CallsTo("mono_jit_init_version")) = 1
             /\ \A i \in CallsTo("mono_jit_init_version") :
                   calls[i].s = <<op.s[3], "v4.0.30319">>
             /\ Cardinality(CallsTo("mono_set_dirs")) = 1
             /\ result.kind = "MDomain" /\ result.domain = RootDomain
        ELSE /\ outcome = "fatal"
             /\ CallsTo("mono_set_dirs") = {}
             /\ CallsTo("mono_jit_init_version") = {}
             /\ jit = "none"

DomainNewUnsupportedTag ==
    /\ op.name = "m_domain_new"
    /\ op.s[4] = "M_RUNTIME_OTHER"
    /\ outcome = "fatal"

\* C5: m_array_addr_with_size returns the address the runtime computed for
\* the element.
ArrayAddrIsReturned ==
    op.name = "m_array_addr_with_size"
        => result = Addr(op.p[1].id, op.n[1] * op.n[2])

\* C6: m_invoke_method, given names whose descriptor fits the buffer, is
\* fatal without invoking when the named assembly is not loaded or the
\* descriptor names no method of it; otherwise it invokes the method once
\* with a null receiver and the caller's params; the descriptor object is
\* freed once on the success and the method-not-found paths.
InvokeMethodResolvesOrDies ==
    (/\ op.name = "m_invoke_method"
     /\ Len(op.s[2]) + Len(op.s[3]) + Len(op.s[4]) + 3 <= NameBufSize) =>
        LET named == Matches(op.s[1])
            desc == op.s[2] \o "." \o op.s[3] \o ":" \o op.s[4]
            having == {i \in named : desc \in StaticMethods[loaded[i]]}
        IN IF named = {}
           THEN outcome = "fatal" /\ CallsTo("mono_runtime_invoke") = {}
           ELSE /\ Cardinality(CallsTo("mono_method_desc_free")) = 1
                /\ IF having = {}
                   THEN outcome = "fatal" /\ CallsTo("mono_runtime_invoke") = {}
                   ELSE /\ outcome = "ok"
                        /\ Cardinality(CallsTo("mono_runtime_invoke")) = 1
                        /\ \A i \in CallsTo("mono_runtime_invoke") :
                              /\ calls[i].p[2] = NULL
                              /\ calls[i].p[3] = op.p[1]

\* C7: m_domain_exec is fatal without running an entry point when the
\* assembly cannot be opened; otherwise it runs the entry point once with
\* argc - 1 arguments from argv + 1, a count that is never negative.
DomainExecDropsArg0 ==
    op.name = "m_domain_exec" =>
        IF \E i \in UserAssemblies : AssemblyFile[i] = op.s[1]
        THEN /\ outcome = "ok"
             /\ Cardinality(CallsTo("mono_jit_exec")) = 1
             /\ \A i \in CallsTo("mono_jit_exec") :
                   /\ calls[i].n = <<op.n[1] - 1, 1>>
                   /\ calls[i].n[1] >= 0
        ELSE outcome = "fatal" /\ CallsTo("mono_jit_exec") = {}

\* C8: m_object_unbox on a null handle is fatal and never calls the
\* runtime's unbox; on a live handle it returns the runtime's storage address
\* of that object.
UnboxNullIsFatal ==
    op.name = "m_object_unbox" =>
        IF op.p[1] = NULL
        THEN outcome = "fatal" /\ CallsTo("mono_object_unbox") = {}
        ELSE /\ outcome = "ok"
             /\ result = Unboxed(op.p[1].id)
             /\ \A i \in CallsTo("mono_object_unbox") : calls[i].p = <<op.p[1]>>
             /\ Cardinality(CallsTo("mono_object_unbox")) = 1

UnboxNullHandle ==
    /\ op.name = "m_object_unbox"
    /\ op.p[1] = NULL
    /\ outcome = "fatal"

\* the receiver a member call on object `o` must get
ExpectedReceiver(o) ==
    IF ClassTable[objects[o.id]].struct THEN Unboxed(o.id) ELSE o
ReceiverCalls ==
    CallsTo("mono_runtime_invoke") \cup CallsTo("mono_property_get_value")
        \cup CallsTo("mono_property_set_value")

\* C9: in m_object, m_object_get_property, m_object_get_property_array,
\* m_object_set_property and m_object_invoke the receiver passed to the
\* runtime is the unboxed storage exactly when the object's class is a value
\* type, and the boxed object otherwise; m_object returns the boxed handle;
\* m_object_set_field always passes the boxed handle.
ReceiverFollowsValueType ==
    /\ (op.name = "m_object" /\ outcome = "ok") =>
          /\ result = Obj(Len(objects))
          /\ Cardinality(ReceiverCalls) = 1
          /\ \A i \in ReceiverCalls : calls[i].p[2] = ExpectedReceiver(result)
    /\ (/\ op.name \in {"m_object_get_property", "m_object_get_property_array",
                        "m_object_set_property", "m_object_invoke"}
        /\ op.p[1] # NULL) =>
          /\ Cardinality(ReceiverCalls) = 1
          /\ \A i \in ReceiverCalls : calls[i].p[2] = ExpectedReceiver(op.p[1])
    /\ (op.name = "m_object_set_field" /\ op.p[1] # NULL) =>
          /\ Cardinality(CallsTo("mono_field_set_value")) = 1
          /\ \A i \in CallsTo("mono_field_set_value") : calls[i].p[1] = op.p[1]

ValueTypeReceiverUnboxed ==
    /\ op.name = "m_object_invoke"
    /\ outcome = "ok"
    /\ ClassTable[objects[op.p[1].id]].struct
    /\ \E i \in ReceiverCalls : calls[i].p[2] = Unboxed(op.p[1].id)

\* C10: the descriptor and its terminator, len(namespace) + len(class) +
\* len(method) + 3 bytes, fit the 256-byte buffer get_method_desc writes.
DescriptorFitsBuffer ==
    op.name = "m_invoke_method" =>
        \A i \in CallsTo("g_sprintf") :
            /\ calls[i].n[1] = Len(op.s[2]) + Len(op.s[3]) + Len(op.s[4]) + 3
            /\ calls[i].n[1] <= NameBufSize
====
